---- MODULE Spec2Model ----
(***************************************************************************)
(* Model of the survey feature-engineering pipeline of Vaccine_Project:    *)
(* pipeline.preprocess (src/pipeline.py), one action per statement group,  *)
(* applied to a batch (a pandas DataFrame) drawn from a bounded family,     *)
(* its caller Home.py, and the DataPreprocessor class                      *)
(* (src/pipeline/preprocessing.py).                                        *)
(*                                                                         *)
(* Representation.                                                         *)
(*  - A DataFrame is a sequence of columns, each a record                  *)
(*      [name |-> column label, dtype |-> pandas dtype, vals |-> cells],   *)
(*    so column order and duplicated labels are kept as pandas keeps them. *)
(*  - A numeric cell holding the float x is stored as the integer 2*x      *)
(*    (Num(x)); the median of integer-valued cells is then exact even when *)
(*    it is the mean of two middle values.  NaN is the missing float.      *)
(*  - A text cell is a string; NaNLabel is the missing cell of an object   *)
(*    column.                                                              *)
(*  - raw is the caller's table object, df the table the code works on;    *)
(*    shared tells whether both names denote the same object, so that an   *)
(*    in-place statement on df also changes raw.                           *)
(*  - model is the classifier object of pipeline.py, index the row index   *)
(*    of the table raw, history the batches a caller of preprocess has     *)
(*    kept with the tables returned for them.                              *)
(***************************************************************************)
EXTENDS Integers, Sequences, FiniteSets, TLC

VARIABLES raw, df, pc, err, shared, session, uploads, calls, explore, model,
          index, history

vars == <<raw, df, pc, err, shared, session, uploads, calls, explore, model,
         index, history>>

MaxRows == 3

(***************************************************************************)
(* Cell values                                                             *)
(***************************************************************************)
Num(x) == 2 * x

NaN == -1000

NA_FILL == -1001

NaNLabel == "nan"

NUMERIC == {"float64", "int64"}

(***************************************************************************)
(* Fixed configuration tables of pipeline.py                               *)
(***************************************************************************)
EXPECTED_COLS ==
  << "h1n1_concern", "h1n1_knowledge", "behavioral_antiviral_meds",
     "chronic_med_condition", "child_under_6_months", "health_worker",
     "health_insurance", "opinion_h1n1_vacc_effective", "opinion_h1n1_risk",
     "opinion_h1n1_sick_from_vacc", "opinion_seas_vacc_effective",
     "opinion_seas_risk", "opinion_seas_sick_from_vacc", "age_group",
     "education", "income_poverty", "household_size", "doctor_recc_both",
     "safe_behavior_score", "race_Hispanic", "race_Other or Multiple",
     "race_White", "sex_Male", "marital_status_Not Married",
     "rent_or_own_Rent", "employment_status_Not in Labor Force",
     "employment_status_Unemployed" >>

edu_order ==
  ("< 12 Years" :> 0) @@ ("12 Years" :> 1) @@ ("Some College" :> 2)
    @@ ("College Graduate" :> 3)

inc_order ==
  ("Below Poverty" :> 0) @@ ("<= $75,000, Above Poverty" :> 1)
    @@ ("> $75,000" :> 2)

age_order ==
  ("18 - 34 Years" :> 0) @@ ("35 - 44 Years" :> 1) @@ ("45 - 54 Years" :> 2)
    @@ ("55 - 64 Years" :> 3) @@ ("65+ Years" :> 4)

ordinal_maps ==
  << [col |-> "education", mapper |-> edu_order],
     [col |-> "income_poverty", mapper |-> inc_order],
     [col |-> "age_group", mapper |-> age_order] >>

hi_map == (Num(1) :> 1) @@ (Num(0) :> 0)

id_and_targets == << "respondent_id", "h1n1_vaccine", "seasonal_vaccine" >>

high_missing == << "employment_industry", "employment_occupation",
                   "hhs_geo_region", "census_msa" >>

safe_behaviors ==
  << "behavioral_avoidance", "behavioral_face_mask", "behavioral_wash_hands",
     "behavioral_large_gatherings", "behavioral_outside_home",
     "behavioral_touch_face" >>

cats == << "race", "sex", "marital_status", "rent_or_own",
           "employment_status" >>

(***************************************************************************)
(* DataFrame helpers (pandas operations used by the pipeline)              *)
(***************************************************************************)
Range(s) == { s[i] : i \in 1..Len(s) }

Columns(t) == [ i \in 1..Len(t) |-> t[i].name ]

HasCol(t, c) == \E i \in 1..Len(t) : t[i].name = c

ColIndex(t, c) == CHOOSE i \in 1..Len(t) : t[i].name = c

Col(t, c) == t[ColIndex(t, c)]

NRows(t) == IF Len(t) = 0 THEN 0 ELSE Len(t[1].vals)

\* The same columns in the same order with the same dtypes and cells.
SameTable(t, u) ==
  /\ Columns(t) = Columns(u)
  /\ \A j \in 1..Len(t) : t[j].dtype = u[j].dtype /\ t[j].vals = u[j].vals

DropCol(t, c) == SelectSeq(t, LAMBDA col : col.name # c)

RECURSIVE DropCols(_, _)
DropCols(t, cs) ==
  IF cs = << >> THEN t ELSE DropCols(DropCol(t, Head(cs)), Tail(cs))

\* df[c] = values : replaces the column in place, or appends a new one.
SetCol(t, c, dtype, vals) ==
  IF HasCol(t, c)
    THEN [ i \in 1..Len(t) |->
             IF t[i].name = c THEN [name |-> c, dtype |-> dtype, vals |-> vals]
                              ELSE t[i] ]
    ELSE Append(t, [name |-> c, dtype |-> dtype, vals |-> vals])

\* Series.fillna(value)
FillNa(vals, value) ==
  [ i \in 1..Len(vals) |-> IF vals[i] = NaN THEN value ELSE vals[i] ]

\* Series.map(dict) : a value that is not a key becomes NaN.
MapValue(mapper, v) == IF v \in DOMAIN mapper THEN Num(mapper[v]) ELSE NaN

MapDict(vals, mapper) == [ i \in 1..Len(vals) |-> MapValue(mapper, vals[i]) ]

\* dtype of the Series that map returns: the integers of the dictionary stay
\* int64 when every cell was a key, and one NaN makes the Series float64;
\* fillna keeps that dtype.
MapDtype(mapped) ==
  IF \E i \in 1..Len(mapped) : mapped[i] = NaN THEN "float64" ELSE "int64"

\* Missing cells are skipped (sum(skipna=True)) or filled with 0 beforehand.
ZeroIfNaN(v) == IF v = NaN THEN 0 ELSE v

\* Series.median() : NaN cells are skipped; NaN when no cell is left; the mean
\* of the two middle values when the number of cells left is even.
PresentIdx(vals) == { i \in 1..Len(vals) : vals[i] # NaN }

KthSmallest(vals, k) ==
  CHOOSE v \in { vals[i] : i \in PresentIdx(vals) } :
    /\ Cardinality({ i \in PresentIdx(vals) : vals[i] < v }) < k
    /\ Cardinality({ i \in PresentIdx(vals) : vals[i] <= v }) >= k

Median(vals) ==
  LET n == Cardinality(PresentIdx(vals)) IN
    IF n = 0 THEN NaN
    ELSE IF n % 2 = 1 THEN KthSmallest(vals, (n + 1) \div 2)
    ELSE (KthSmallest(vals, n \div 2) + KthSmallest(vals, n \div 2 + 1)) \div 2

\* The text labels of the model in the order Python sorts them (code points).
LexOrder ==
  << "Black", "Employed", "Female", "Hispanic", "Male", "Married",
     "Not Married", "Not in Labor Force", "Other or Multiple", "Own", "Rent",
     "Unemployed", "White" >>

\* Categories of a nominal column: the labels present in the batch, sorted;
\* missing cells are no category (dummy_na=False).
Levels(vals) ==
  SelectSeq(LexOrder, LAMBDA s : \E i \in 1..Len(vals) : vals[i] = s)

\* Variant: every category gets an indicator (drop_first=False).
DummyLevels_all(vals) == Levels(vals)

\* drop_first=True removes the first category found in the batch.
DummyLevels(vals) == IF Levels(vals) = << >> THEN << >> ELSE Tail(Levels(vals))

\* A column that holds no text (read from a file without any value in it)
\* has no category.
DummyCols(col) ==
  LET lv == IF col.dtype = "object" THEN DummyLevels(col.vals) ELSE << >> IN
    [ k \in 1..Len(lv) |->
        [ name |-> col.name \o "_" \o lv[k],
          dtype |-> "bool",
          vals |-> [ i \in 1..Len(col.vals) |->
                       IF col.vals[i] = lv[k] THEN Num(1) ELSE Num(0) ] ] ]

RECURSIVE AllDummies(_, _)
AllDummies(t, cs) ==
  IF cs = << >> THEN << >>
  ELSE DummyCols(Col(t, Head(cs))) \o AllDummies(t, Tail(cs))

\* pd.get_dummies(df, columns=cats, drop_first=True): the other columns in
\* their order, then the indicator columns of each encoded column.
get_dummies(t, cs) == DropCols(t, cs) \o AllDummies(t, cs)

(***************************************************************************)
(* Stages of pipeline.preprocess as functions of the table                 *)
(***************************************************************************)
drop_id_targets(t) == DropCols(t, id_and_targets)

drop_high_missing(t) == DropCols(t, high_missing)

\* Variant: an unknown answer is filled with 0 instead of -1.
fill_health_insurance_zero(t) ==
  LET filled == FillNa(Col(t, "health_insurance").vals, NA_FILL)
      mapped == MapDict(filled, hi_map)
  IN SetCol(t, "health_insurance", MapDtype(mapped), FillNa(mapped, Num(0)))

\* Variant: the column is median-imputed before it is encoded.
fill_health_insurance_median(t) ==
  LET vals == Col(t, "health_insurance").vals
      filled == FillNa(vals, Median(vals))
      mapped == MapDict(filled, hi_map)
  IN SetCol(t, "health_insurance", MapDtype(mapped), FillNa(mapped, Num(-1)))

fill_health_insurance(t) ==
  LET filled == FillNa(Col(t, "health_insurance").vals, NA_FILL)
      mapped == MapDict(filled, hi_map)
  IN SetCol(t, "health_insurance", MapDtype(mapped), FillNa(mapped, Num(-1)))

RECURSIVE ordinal_encode_from(_, _)
ordinal_encode_from(t, ms) ==
  IF ms = << >> THEN t
  ELSE LET m == Head(ms)
           mapped == IF Col(t, m.col).dtype = "object"
                       THEN MapDict(Col(t, m.col).vals, m.mapper)
                       ELSE [ i \in 1..NRows(t) |-> NaN ]
           t2 == IF HasCol(t, m.col)
                   THEN SetCol(t, m.col, MapDtype(mapped), mapped)
                   ELSE t
       IN ordinal_encode_from(t2, Tail(ms))

\* Variant: labels are stripped and re-capitalised before the lookup.
ordinal_encode_lenient(t) ==
  LET norm(v) == CASE v = "college graduate" -> "College Graduate"
                   [] v = " 18 - 34 Years" -> "18 - 34 Years"
                   [] OTHER -> v
      mapped(u, m) == [ i \in 1..NRows(u) |->
                          IF Col(u, m.col).dtype = "object"
                            THEN MapValue(m.mapper, norm(Col(u, m.col).vals[i]))
                            ELSE NaN ]
      enc(u, m) ==
        IF HasCol(u, m.col)
          THEN SetCol(u, m.col, MapDtype(mapped(u, m)), mapped(u, m))
          ELSE u
  IN enc(enc(enc(t, ordinal_maps[1]), ordinal_maps[2]), ordinal_maps[3])

ordinal_encode(t) == ordinal_encode_from(t, ordinal_maps)

\* Variant: the sum is taken without fillna(0), so a missing operand makes
\* the sum missing.
household_size_nofill(t) ==
  LET a == Col(t, "household_adults").vals
      c == Col(t, "household_children").vals
  IN SetCol(t, "household_size", "float64",
            [ i \in 1..NRows(t) |->
                IF a[i] = NaN \/ c[i] = NaN THEN NaN ELSE a[i] + c[i] ])

household_size(t) ==
  LET a == Col(t, "household_adults").vals
      c == Col(t, "household_children").vals
  IN SetCol(t, "household_size", "float64",
            [ i \in 1..NRows(t) |-> ZeroIfNaN(a[i]) + ZeroIfNaN(c[i]) ])

RECURSIVE RowSum(_, _, _)
RowSum(t, cs, i) ==
  IF cs = << >> THEN 0
  ELSE ZeroIfNaN(Col(t, Head(cs)).vals[i]) + RowSum(t, Tail(cs), i)

\* Variant: every behavioral_ column is summed, behavioral_antiviral_meds
\* included.
safe_behavior_score_all(t) ==
  SetCol(t, "safe_behavior_score", "float64",
         [ i \in 1..NRows(t) |->
             RowSum(t, << "behavioral_antiviral_meds" >> \o safe_behaviors, i) ])

safe_behavior_score(t) ==
  SetCol(t, "safe_behavior_score", "float64",
         [ i \in 1..NRows(t) |-> RowSum(t, safe_behaviors, i) ])

\* Variant: the sum is taken without fillna(0).
doctor_recc_both_nofill(t) ==
  LET h == Col(t, "doctor_recc_h1n1").vals
      s == Col(t, "doctor_recc_seasonal").vals
      t2 == SetCol(t, "doctor_recc_both", "float64",
                   [ i \in 1..NRows(t) |->
                       IF h[i] = NaN \/ s[i] = NaN THEN NaN ELSE h[i] + s[i] ])
  IN DropCols(t2, << "doctor_recc_h1n1", "doctor_recc_seasonal" >>)

doctor_recc_both(t) ==
  LET h == Col(t, "doctor_recc_h1n1").vals
      s == Col(t, "doctor_recc_seasonal").vals
      t2 == SetCol(t, "doctor_recc_both", "float64",
                   [ i \in 1..NRows(t) |-> ZeroIfNaN(h[i]) + ZeroIfNaN(s[i]) ])
  IN DropCols(t2, << "doctor_recc_h1n1", "doctor_recc_seasonal" >>)

one_hot(t) == get_dummies(t, cats)

\* Variant: the medians are kept from one call to the next: a column that
\* the table returned by the call before has is filled with its median there.
numeric_impute_stale(t) ==
  LET before == IF history = << >> THEN << >>
                ELSE history[Len(history)].table
  IN [ j \in 1..Len(t) |->
         IF t[j].dtype \in NUMERIC
           THEN [ t[j] EXCEPT !.vals =
                    FillNa(@, IF /\ HasCol(before, t[j].name)
                                 /\ Col(before, t[j].name).dtype \in NUMERIC
                                THEN Median(Col(before, t[j].name).vals)
                                ELSE Median(@)) ]
           ELSE t[j] ]

\* Variant: a missing cell is filled with 0.
numeric_impute_zero(t) ==
  [ j \in 1..Len(t) |->
      IF t[j].dtype \in NUMERIC
        THEN [ t[j] EXCEPT !.vals = FillNa(@, Num(0)) ]
        ELSE t[j] ]

numeric_impute(t) ==
  [ j \in 1..Len(t) |->
      IF t[j].dtype \in NUMERIC
        THEN [ t[j] EXCEPT !.vals = FillNa(@, Median(@)) ]
        ELSE t[j] ]

\* df[EXPECTED_COLS] : for each listed label, in list order, every column
\* carrying that label (in table order when a label occurs more than once).
RECURSIVE select_range(_, _, _, _)
select_range(t, cs, lo, hi) ==
  IF lo = hi THEN SelectSeq(t, LAMBDA col : col.name = cs[lo])
  ELSE select_range(t, cs, lo, (lo + hi) \div 2)
         \o select_range(t, cs, (lo + hi) \div 2 + 1, hi)

\* for col in EXPECTED_COLS: if col not in df: df[col] = 0, and then
\* df = df[EXPECTED_COLS]
match_expected(t) ==
  LET missing == SelectSeq(EXPECTED_COLS, LAMBDA c : ~HasCol(t, c))
      with_missing ==
        t \o [ k \in 1..Len(missing) |->
                 [ name |-> missing[k], dtype |-> "int64",
                   vals |-> [ i \in 1..NRows(t) |-> Num(0) ] ] ]
  IN select_range(with_missing, EXPECTED_COLS, 1, Len(EXPECTED_COLS))

\* Columns whose absence makes a stage raise KeyError.
MissingOf(t, cs) == SelectSeq(cs, LAMBDA c : ~HasCol(t, c))

\* The whole function, for a table on which it returns.
preprocess(t) ==
  match_expected(numeric_impute(one_hot(doctor_recc_both(
    safe_behavior_score(household_size(ordinal_encode(
      fill_health_insurance(drop_high_missing(drop_id_targets(t))))))))))

(***************************************************************************)
(* Input batches                                                           *)
(***************************************************************************)
\* The columns of the survey file, in file order.
RawCols ==
  << "respondent_id", "h1n1_concern", "h1n1_knowledge",
     "behavioral_antiviral_meds", "behavioral_avoidance",
     "behavioral_face_mask", "behavioral_wash_hands",
     "behavioral_large_gatherings", "behavioral_outside_home",
     "behavioral_touch_face", "doctor_recc_h1n1", "doctor_recc_seasonal",
     "chronic_med_condition", "child_under_6_months", "health_worker",
     "health_insurance", "opinion_h1n1_vacc_effective", "opinion_h1n1_risk",
     "opinion_h1n1_sick_from_vacc", "opinion_seas_vacc_effective",
     "opinion_seas_risk", "opinion_seas_sick_from_vacc", "age_group",
     "education", "race", "sex", "income_poverty", "marital_status",
     "rent_or_own", "employment_status", "hhs_geo_region", "census_msa",
     "household_adults", "household_children", "employment_industry",
     "employment_occupation" >>

RawDtype(c) ==
  IF c \in { "age_group", "education", "income_poverty", "hhs_geo_region",
             "census_msa", "employment_industry", "employment_occupation",
             "extra_note", "race_White" } \cup Range(cats)
    THEN "object" ELSE "float64"

\* The row of the end-to-end scenario: nothing missing, every label known.
BaseRow ==
  [ c \in Range(RawCols)
          \cup { "h1n1_vaccine", "seasonal_vaccine", "extra_note", "race_White" }
      |->
    CASE c = "age_group" -> "18 - 34 Years"
      [] c = "education" -> "College Graduate"
      [] c = "income_poverty" -> "> $75,000"
      [] c = "race" -> "White"
      [] c = "sex" -> "Male"
      [] c = "marital_status" -> "Married"
      [] c = "rent_or_own" -> "Own"
      [] c = "employment_status" -> "Employed"
      [] c \in { "hhs_geo_region", "census_msa", "employment_industry",
                 "employment_occupation", "extra_note", "race_White" } -> "x"
      [] c \in { "household_children", "doctor_recc_seasonal",
                 "chronic_med_condition", "child_under_6_months",
                 "health_worker", "h1n1_vaccine" } -> Num(0)
      [] c \in { "opinion_h1n1_vacc_effective", "opinion_seas_vacc_effective" }
           -> Num(4)
      [] c \in { "opinion_h1n1_risk", "opinion_seas_risk", "h1n1_knowledge" }
           -> Num(2)
      [] OTHER -> Num(1) ]

RECURSIVE With(_, _)
With(r, edits) ==
  IF edits = << >> THEN r
  ELSE With([ r EXCEPT ![Head(edits)[1]] = Head(edits)[2] ], Tail(edits))

\* Rows a batch is made of: the scenario row and rows that differ from it in
\* the fields the stages read.
RowList ==
  << BaseRow,
     With(BaseRow, << <<"race", "Black">>, <<"sex", "Female">>,
                      <<"health_insurance", Num(0)>>,
                      <<"household_adults", Num(2)>>,
                      <<"household_children", Num(1)>>,
                      <<"doctor_recc_seasonal", Num(1)>> >>),
     With(BaseRow, << <<"race", "Hispanic">>,
                      <<"health_insurance", Num(2)>>,
                      <<"behavioral_avoidance", Num(0)>>,
                      <<"behavioral_face_mask", Num(0)>>,
                      <<"behavioral_wash_hands", Num(0)>>,
                      <<"behavioral_large_gatherings", Num(0)>>,
                      <<"behavioral_outside_home", Num(0)>>,
                      <<"behavioral_touch_face", Num(0)>>,
                      <<"doctor_recc_h1n1", Num(0)>> >>),
     With(BaseRow, << <<"race", "Other or Multiple">>, <<"sex", "Female">>,
                      <<"education", "Some College">>,
                      <<"age_group", "65+ Years">>,
                      <<"income_poverty", "Below Poverty">>,
                      <<"h1n1_concern", Num(0)>>,
                      <<"behavioral_antiviral_meds", Num(0)>> >>),
     With(BaseRow, << <<"marital_status", "Not Married">>,
                      <<"rent_or_own", "Rent">>,
                      <<"employment_status", "Unemployed">>,
                      <<"household_adults", Num(3)>>,
                      <<"household_children", Num(3)>>,
                      <<"h1n1_concern", Num(3)>> >>),
     With(BaseRow, << <<"race", NaNLabel>>,
                      <<"employment_status", "Not in Labor Force">>,
                      <<"household_adults", NaN>>,
                      <<"household_children", Num(1)>> >>),
     With(BaseRow, << <<"health_insurance", NaN>> >>),
     With(BaseRow, << <<"race", "Hispanic">>, <<"health_insurance", NaN>>,
                      <<"doctor_recc_h1n1", NaN>>,
                      <<"doctor_recc_seasonal", Num(1)>>,
                      <<"behavioral_wash_hands", NaN>>,
                      <<"behavioral_touch_face", Num(0)>>,
                      <<"behavioral_antiviral_meds", NaN>> >>),
     With(BaseRow, << <<"education", "college graduate">>,
                      <<"income_poverty", NaNLabel>>,
                      <<"age_group", " 18 - 34 Years">>,
                      <<"h1n1_concern", NaN>> >>),
     With(BaseRow, << <<"household_adults", NaN>>,
                      <<"household_children", NaN>>,
                      <<"doctor_recc_h1n1", NaN>>,
                      <<"doctor_recc_seasonal", NaN>>,
                      <<"behavioral_avoidance", NaN>>,
                      <<"behavioral_face_mask", NaN>>,
                      <<"behavioral_wash_hands", NaN>>,
                      <<"behavioral_large_gatherings", NaN>>,
                      <<"behavioral_outside_home", NaN>>,
                      <<"behavioral_touch_face", NaN>>,
                      <<"opinion_h1n1_risk", NaN>>,
                      <<"h1n1_concern", Num(2)>> >>) >>

Without(cs, gone) == SelectSeq(cs, LAMBDA c : c \notin gone)

\* Column sets a submitted file can have: the full survey file, with the
\* training targets, with extra columns, without the optional columns, and
\* without a column that a stage reads unconditionally.
Schemas ==
  { RawCols,
    RawCols \o << "h1n1_vaccine", "seasonal_vaccine" >>,
    RawCols \o << "extra_note" >>,
    RawCols \o << "race_White" >>,
    Without(RawCols, { "respondent_id", "h1n1_concern", "h1n1_knowledge",
                       "education", "income_poverty", "age_group",
                       "hhs_geo_region", "census_msa", "employment_industry",
                       "employment_occupation", "opinion_seas_risk" }),
    Without(RawCols, { "health_insurance" }),
    Without(RawCols, { "household_adults", "household_children" }),
    Without(RawCols, { "behavioral_face_mask", "behavioral_touch_face" }),
    Without(RawCols, { "doctor_recc_h1n1" }),
    Without(RawCols, { "sex", "rent_or_own" }) }

\* Row choices of a batch, as indices of RowList in non-decreasing order
\* (the pipeline has no stage that depends on the order of the rows).
BatchIdx ==
  UNION { { s \in [1..n -> 1..Len(RowList)] :
              \A i \in 1..(n - 1) : s[i] <= s[i + 1] } : n \in 1..MaxRows }

Batch(cols, idx) ==
  [ j \in 1..Len(cols) |->
      [ name |-> cols[j], dtype |-> RawDtype(cols[j]),
        vals |-> [ i \in 1..Len(idx) |-> RowList[idx[i]][cols[j]] ] ] ]

\* pd.read_csv on the file with the cells of t: a column without any value
\* is inferred as float64 and holds NaN; the other columns are as in t.
read_csv(t) ==
  [ j \in 1..Len(t) |->
      IF /\ t[j].dtype = "object"
         /\ NRows(t) > 0
         /\ \A i \in 1..NRows(t) : t[j].vals[i] = NaNLabel
        THEN [ name |-> t[j].name, dtype |-> "float64",
               vals |-> [ i \in 1..NRows(t) |-> NaN ] ]
        ELSE t[j] ]

(***************************************************************************)
(* pipeline.preprocess as a state machine                                  *)
(***************************************************************************)
\* The batch made of row i alone.
Alone(t, i) == [ j \in 1..Len(t) |-> [ t[j] EXCEPT !.vals = << @[i] >> ] ]

\* The batch without its row i.
DropRow(t, i) ==
  [ j \in 1..Len(t) |->
      [ t[j] EXCEPT !.vals = SubSeq(@, 1, i - 1) \o SubSeq(@, i + 1, Len(@)) ] ]

NoTable == << >>

NoError == [ type |-> "none", args |-> << >> ]

\* pages/Explore.py before its first run: nothing cached by st.cache_data for
\* get_clean, no df_clean on the page.
NoExplore == [ cache |-> NoTable, df_clean |-> NoTable ]

\* The classifier loaded once from multi_tuned_rf.pkl when pipeline.py is
\* imported: what it has learnt, here the value from which each target is
\* predicted.
Classifier == [ doctor_recc_both |-> Num(1), age_group |-> Num(3) ]

\* The default row index of a table, as pd.read_csv and the DataFrame
\* constructor give it: 0, 1, ...
Index(t) == [ i \in 1..NRows(t) |-> i - 1 ]

\* KeyError raised by df[key]: a scalar key names the absent column, a list
\* key names every absent column of the list.
KeyError(missing) == [ type |-> "KeyError", args |-> missing ]

\* DataFrame.copy(): the same cells in a new object.
copy_alias(t) == [ table |-> t, fresh |-> FALSE ]

copy(t) == [ table |-> t, fresh |-> TRUE ]

Init ==
  /\ raw \in { Batch(cols, idx) : cols \in Schemas, idx \in BatchIdx }
  /\ df = NoTable
  /\ pc = "call"
  /\ err = NoError
  /\ shared = FALSE
  /\ session = << >>
  /\ uploads = 1
  /\ calls = 0
  /\ explore = NoExplore
  /\ model = Classifier
  /\ index = Index(raw)
  /\ history = << >>

\* A statement that changes the object df is bound to (inplace=True,
\* df[col] = ...): the caller's table changes too when it is that object.
InPlace(from, to, t) ==
  /\ pc = from
  /\ pc' = to
  /\ df' = t
  /\ raw' = IF shared THEN t ELSE raw
  /\ UNCHANGED << err, shared, session, uploads, calls, explore, model,
                  index, history >>

\* A statement that binds df to a new object (df = ...).
Rebind(from, to, t) ==
  /\ pc = from
  /\ pc' = to
  /\ df' = t
  /\ shared' = FALSE
  /\ UNCHANGED << raw, err, session, uploads, calls, explore, model,
                  index, history >>

\* The statement raises: preprocess ends without a result.
Raise(from, e) ==
  /\ pc = from
  /\ pc' = "raised"
  /\ err' = e
  /\ df' = NoTable
  /\ shared' = FALSE
  /\ UNCHANGED << raw, session, uploads, calls, explore, model,
                  index, history >>

\* df[c1] ... df[c2] with scalar keys: the first absent one raises.
FirstMissing(t, needed) ==
  IF MissingOf(t, needed) = << >> THEN << >>
  ELSE << Head(MissingOf(t, needed)) >>

Copy ==
  /\ pc = "call"
  /\ pc' = "drop_id"
  /\ df' = copy(raw).table
  /\ shared' = ~copy(raw).fresh
  /\ UNCHANGED << raw, err, session, uploads, calls, explore, model,
                  index, history >>

DropIdTargets == InPlace("drop_id", "drop_high_missing", drop_id_targets(df))

DropHighMissing ==
  InPlace("drop_high_missing", "health_insurance", drop_high_missing(df))

FillHealthInsurance ==
  IF HasCol(df, "health_insurance")
    THEN InPlace("health_insurance", "ordinal", fill_health_insurance(df))
    ELSE Raise("health_insurance", KeyError(<< "health_insurance" >>))

OrdinalEncode == InPlace("ordinal", "household_size", ordinal_encode(df))

HouseholdSize ==
  LET missing == FirstMissing(df, << "household_adults",
                                     "household_children" >>)
  IN IF missing = << >>
       THEN InPlace("household_size", "safe_behavior_score",
                    household_size(df))
       ELSE Raise("household_size", KeyError(missing))

SafeBehaviorScore ==
  IF MissingOf(df, safe_behaviors) = << >>
    THEN InPlace("safe_behavior_score", "doctor_recc_both",
                 safe_behavior_score(df))
    ELSE Raise("safe_behavior_score", KeyError(MissingOf(df, safe_behaviors)))

DoctorReccBoth ==
  LET missing == FirstMissing(df, << "doctor_recc_h1n1",
                                     "doctor_recc_seasonal" >>)
  IN IF missing = << >>
       THEN InPlace("doctor_recc_both", "one_hot", doctor_recc_both(df))
       ELSE Raise("doctor_recc_both", KeyError(missing))

OneHot ==
  IF MissingOf(df, cats) = << >>
    THEN Rebind("one_hot", "impute", one_hot(df))
    ELSE Raise("one_hot", KeyError(MissingOf(df, cats)))

NumericImpute == InPlace("impute", "match_expected", numeric_impute(df))

MatchExpected == Rebind("match_expected", "done", match_expected(df))

PreprocessStep ==
  \/ Copy
  \/ DropIdTargets
  \/ DropHighMissing
  \/ FillHealthInsurance
  \/ OrdinalEncode
  \/ HouseholdSize
  \/ SafeBehaviorScore
  \/ DoctorReccBoth
  \/ OneHot
  \/ NumericImpute
  \/ MatchExpected

(***************************************************************************)
(* Home.py: the Continue handler around preprocess                         *)
(***************************************************************************)
MaxUploads == 2

\* The classifier loaded from multi_tuned_rf.pkl: it accepts a numeric
\* matrix with the feature names it was fitted on and returns one label pair
\* per row.
ModelAccepts(t) ==
  /\ Columns(t) = EXPECTED_COLS
  /\ \A j \in 1..Len(t) : t[j].dtype \in NUMERIC \cup { "bool" }

HasMissingCell(t) ==
  \E j \in 1..Len(t) : /\ t[j].dtype \in NUMERIC
                        /\ \E i \in 1..NRows(t) : t[j].vals[i] = NaN

model_predict(m, t) ==
  [ i \in 1..NRows(t) |->
      << IF Col(t, "doctor_recc_both").vals[i] >= m.doctor_recc_both
           THEN 1 ELSE 0,
         IF Col(t, "age_group").vals[i] >= m.age_group THEN 1 ELSE 0 >> ]

\* Variant: the two targets are taken from the wrong columns of the array.
predict_swapped(m, t, ix) ==
  LET labels == model_predict(m, t) IN
    [ h1n1_label     |-> [ index |-> ix,
                           values |-> [ i \in 1..NRows(t) |-> labels[i][2] ] ],
      seasonal_label |-> [ index |-> ix,
                           values |-> [ i \in 1..NRows(t) |-> labels[i][1] ] ],
      classifier_calls |-> << t >> ]

\* predict(df_processed), with m the classifier and ix the row index of
\* df_processed: one call of model.predict, whose two columns become two
\* Series built with index=df_processed.index; classifier_calls lists the
\* batches handed to the classifier.
predict(m, t, ix) ==
  LET labels == model_predict(m, t) IN
    [ h1n1_label     |-> [ index |-> ix,
                           values |-> [ i \in 1..NRows(t) |-> labels[i][1] ] ],
      seasonal_label |-> [ index |-> ix,
                           values |-> [ i \in 1..NRows(t) |-> labels[i][2] ] ],
      classifier_calls |-> << t >> ]

\* A call predict(df_processed) on a feature matrix that preprocess returned,
\* under the default row index or under another one.
InitPredict ==
  /\ \E idx \in BatchIdx : raw = preprocess(Batch(RawCols, idx))
  /\ index \in { Index(raw), [ i \in 1..NRows(raw) |-> 2 * (NRows(raw) - i) + 1 ] }
  /\ df = NoTable
  /\ pc = "predict_call"
  /\ err = NoError
  /\ shared = FALSE
  /\ session = << >>
  /\ uploads = 1
  /\ calls = 0
  /\ explore = NoExplore
  /\ model = Classifier
  /\ history = << >>

\* predict(df_processed): the pair of Series is returned, or model.predict
\* raises. predict assigns to neither df_processed nor model, and
\* model.predict reads the classifier only.
Predict ==
  /\ pc = "predict_call"
  /\ \E tolerant \in BOOLEAN :
       IF ModelAccepts(raw) /\ (tolerant \/ ~HasMissingCell(raw))
         THEN /\ pc' = "predict_returned"
              /\ err' = err
              /\ df' = << predict(model, raw, index).h1n1_label,
                          predict(model, raw, index).seasonal_label >>
         ELSE /\ pc' = "predict_raised"
              /\ err' = [ type |-> "ValueError", args |-> << >> ]
              /\ df' = df
  /\ calls' = calls + Len(predict(model, raw, index).classifier_calls)
  /\ UNCHANGED << raw, shared, session, uploads, explore, model,
                  index, history >>

SpecPredict == InitPredict /\ [][Predict]_vars

\* st.session_state["df_clean"] = df_clean. Every access to the session state
\* first yields to the script runner: a rerun request that arrived while
\* preprocess ran ends the run there, before the entry is stored.
HomeStoreClean ==
  /\ pc = "done"
  /\ \E rerun \in BOOLEAN :
       IF rerun
         THEN /\ pc' = "stopped"
              /\ session' = session
         ELSE /\ pc' = "predict"
              /\ session' = [ k \in DOMAIN session \cup { "df_clean" } |->
                                IF k = "df_clean" THEN df ELSE session[k] ]
  /\ UNCHANGED << raw, df, err, shared, uploads, calls, explore, model,
                  index, history >>

\* predict(st.session_state["df_clean"]) and the three session keys set after
\* it. Whether the classifier takes a matrix with a missing cell depends on
\* the library version that loads the pickle. A rerun request that arrives
\* while predict runs, or between two of the assignments, ends the run at
\* the next access to the session state (lines 32, 33, 34) or at the next
\* element written to the page (line 40): stop_at is that line, 0 when the
\* run reaches its end. The entries assigned before that line stay.
HomePredict ==
  /\ pc = "predict"
  /\ \E tolerant \in BOOLEAN :
       IF /\ ModelAccepts(session["df_clean"])
          /\ (tolerant \/ ~HasMissingCell(session["df_clean"]))
         THEN \E stop_at \in { 32, 33, 34, 40, 0 } :
                LET line == [ raw_df |-> 32, h1n1_prob |-> 33,
                              seasonal_prob |-> 34 ]
                    stored == { k \in DOMAIN line :
                                  stop_at = 0 \/ line[k] < stop_at }
                IN /\ pc' = IF stop_at = 0 THEN "ready" ELSE "stopped"
                   /\ err' = err
                   /\ session' =
                        [ k \in DOMAIN session \cup stored |->
                            CASE k \in stored /\ k = "raw_df" -> raw
                              [] k \in stored /\ k = "h1n1_prob" ->
                                   predict(model, session["df_clean"],
                                           index).h1n1_label
                              [] k \in stored /\ k = "seasonal_prob" ->
                                   predict(model, session["df_clean"],
                                           index).seasonal_label
                              [] OTHER -> session[k] ]
         ELSE /\ pc' = "predict_raised"
              /\ err' = [ type |-> "ValueError", args |-> << >> ]
              /\ session' = session
  /\ calls' = calls + Len(predict(model, session["df_clean"],
                                   index).classifier_calls)
  /\ UNCHANGED << raw, df, shared, uploads, explore, model,
                  index, history >>

\* st.success("Data cleaned and stored.") and the read of
\* st.session_state["df_clean"] for predict: a rerun request that is pending
\* when either is reached stops the script there, before the classifier is
\* called; what the run wrote to the session state stays.
HomeStop ==
  /\ pc = "predict"
  /\ pc' = "stopped"
  /\ UNCHANGED << raw, df, err, shared, session, uploads, calls, explore, model,
                  index, history >>

\* The page runs again with the same or another uploaded file and Continue
\* is clicked; the session state is kept.
NewUpload ==
  /\ pc \in { "ready", "raised", "predict_raised", "stopped" }
  /\ uploads < MaxUploads
  /\ uploads' = uploads + 1
  /\ \E same_file \in BOOLEAN :
       raw' = IF same_file THEN raw ELSE read_csv(Batch(RawCols, << 4, 9 >>))
  /\ df' = NoTable
  /\ pc' = "call"
  /\ err' = NoError
  /\ shared' = FALSE
  /\ explore' = [ explore EXCEPT !.df_clean = NoTable ]
  /\ index' = Index(raw')
  /\ UNCHANGED << session, calls, model, history >>

(***************************************************************************)
(* A caller that calls preprocess several times in one process and keeps   *)
(* each batch with the table returned for it                               *)
(***************************************************************************)
MaxCalls == 3

\* The first call: a batch of rows with different h1n1_concern and household
\* cells, one of them with h1n1_concern missing.
InitCalls ==
  /\ \E idx \in { q \in BatchIdx : \A i \in 1..Len(q) : q[i] \in { 4, 5, 9 } } :
       raw = Batch(RawCols, idx)
  /\ df = NoTable
  /\ pc = "call"
  /\ err = NoError
  /\ shared = FALSE
  /\ session = << >>
  /\ uploads = 1
  /\ calls = 0
  /\ explore = NoExplore
  /\ model = Classifier
  /\ index = Index(raw)
  /\ history = << >>

\* preprocess returns: the caller keeps the batch and the table.
Return ==
  /\ pc = "done"
  /\ pc' = "returned"
  /\ history' = Append(history, [ batch |-> raw, table |-> df ])
  /\ UNCHANGED << raw, df, err, shared, session, uploads, calls, explore,
                  model, index >>

\* The next call: on the batch of the first call again, or on one of two
\* other batches.
NextCall ==
  /\ pc = "returned"
  /\ Len(history) < MaxCalls
  /\ \E again \in { "first", "other", "third" } :
       raw' = CASE again = "first" -> history[1].batch
                [] again = "other" -> Batch(RawCols, << 5, 9 >>)
                [] again = "third" -> Batch(RawCols, << 4, 9, 10 >>)
  /\ df' = NoTable
  /\ pc' = "call"
  /\ shared' = FALSE
  /\ index' = Index(raw')
  /\ UNCHANGED << err, session, uploads, calls, explore, model, history >>

SpecCalls == InitCalls /\ [][PreprocessStep \/ Return \/ NextCall]_vars

Next ==
  \/ PreprocessStep
  \/ HomeStoreClean
  \/ HomeStop
  \/ HomePredict

Spec == Init /\ [][Next]_vars

\* The run of the Continue handler is over: it returned, raised, or was
\* stopped by a rerun request.
HandlerEnded == pc \in { "ready", "raised", "predict_raised", "stopped" }

\* Guards of the pages: the session key each page needs to go on.
PredictionsProceeds == "results_df" \in DOMAIN session

RecommendationProceeds == "results_df" \in DOMAIN session

PreprocessPageProceeds == "results_df" \in DOMAIN session

\* @st.cache_data def get_clean(): the function takes no argument, so every
\* run after the first returns the value cached by the first.
get_clean(cache, t) == IF Len(cache) = 0 THEN preprocess(t) ELSE cache

\* A run of pages/Explore.py after the Home page has been left. The cached
\* function writes its result to the cache and then closes its spinner, which
\* yields to the script runner: a rerun request that arrived while get_clean
\* ran ends the run there, with the cache written and df_clean not assigned.
ExploreRun ==
  /\ HandlerEnded
  /\ "raw_df" \in DOMAIN session
  /\ Len(explore.df_clean) = 0
  /\ \E rerun \in BOOLEAN :
       explore' = [ cache    |-> get_clean(explore.cache, session["raw_df"]),
                    df_clean |-> IF rerun THEN NoTable
                                 ELSE get_clean(explore.cache,
                                                session["raw_df"]) ]
  /\ UNCHANGED << raw, df, pc, err, shared, session, uploads, calls, model,
                  index, history >>

NextSession ==
  \/ Next
  \/ NewUpload
  \/ ExploreRun

\* The first upload of a session: every column layout, with rows taken from
\* the scenario row, a row with other labels and the rows with missing or
\* unknown cells.
InitSession ==
  /\ \E cols \in Schemas :
       \E idx \in { s \in BatchIdx :
                     \A i \in 1..Len(s) : s[i] \in { 1, 4, 6, 9, 10 } } :
         raw = read_csv(Batch(cols, idx))
  /\ df = NoTable
  /\ pc = "call"
  /\ err = NoError
  /\ shared = FALSE
  /\ session = << >>
  /\ uploads = 1
  /\ calls = 0
  /\ explore = NoExplore
  /\ model = Classifier
  /\ index = Index(raw)
  /\ history = << >>

SpecSession == InitSession /\ [][NextSession]_vars

TypeOK ==
  /\ pc \in { "call", "drop_id", "drop_high_missing", "health_insurance",
              "ordinal", "household_size", "safe_behavior_score",
              "doctor_recc_both", "one_hot", "impute", "match_expected",
              "done", "raised", "predict", "ready", "predict_raised",
              "stopped", "dp", "dp_preprocess", "app_done", "app_error",
              "results", "rec_done", "rec_raised", "risk_done",
              "predict_call", "predict_returned", "returned" }
  /\ (pc = "raised") => (err.type = "KeyError")
  /\ (pc \notin { "raised", "predict_raised", "dp", "dp_preprocess",
                   "app_error", "rec_raised" }) => (err = NoError)
  /\ (pc = "done") => (df = preprocess(raw))
  /\ DOMAIN session \subseteq { "df_clean", "raw_df", "h1n1_prob",
                                "seasonal_prob", "preprocessed_data",
                                "target_column" }
  /\ calls \in 0..uploads
  /\ DOMAIN explore = { "cache", "df_clean" }
  /\ model = Classifier
  /\ Len(index) = NRows(raw)
  /\ Len(history) <= MaxCalls

(***************************************************************************)
(* DataPreprocessor (src/pipeline/preprocessing.py)                        *)
(* df is self.data, raw the table given to the constructor, err the        *)
(* exception of the last method call.                                      *)
(***************************************************************************)
required_columns ==
  << "respondent_id", "h1n1_concern", "behavioral_antiviral_meds",
     "household_adults", "household_children", "doctor_recc_h1n1",
     "doctor_recc_seasonal", "opinion_h1n1_risk" >>

ValueError(missing) == [ type |-> "ValueError", args |-> missing ]

AttributeError(name) == [ type |-> "AttributeError", args |-> << name >> ]

\* Variant: the check stops at the first absent column.
validate_data_first(t) ==
  IF MissingOf(t, required_columns) = << >> THEN NoError
  ELSE ValueError(<< Head(MissingOf(t, required_columns)) >>)

\* validate_data: the exception it raises, NoError when it returns.
validate_data(t) ==
  IF MissingOf(t, required_columns) = << >> THEN NoError
  ELSE ValueError(MissingOf(t, required_columns))

\* Variant: the listed columns are dropped without looking whether the
\* table has them; a column already gone leaves the table empty-handed.
drop_unused_columns_strict(t) ==
  IF MissingOf(t, high_missing) = << >> THEN DropCols(t, high_missing)
  ELSE NoTable

drop_unused_columns(t) ==
  DropCols(t, SelectSeq(high_missing, LAMBDA c : HasCol(t, c)))

\* Every text label of the model in the order Python sorts them.
LabelOrder ==
  << " 18 - 34 Years", "12 Years", "18 - 34 Years", "35 - 44 Years",
     "45 - 54 Years", "55 - 64 Years", "65+ Years", "< 12 Years",
     "<= $75,000, Above Poverty", "> $75,000", "Below Poverty", "Black",
     "College Graduate", "Employed", "Female", "Hispanic", "Male", "Married",
     "Not Married", "Not in Labor Force", "Other or Multiple", "Own", "Rent",
     "Some College", "Unemployed", "White", "college graduate", "x" >>

Count(vals, v) == Cardinality({ i \in 1..Len(vals) : vals[i] = v })

\* Series.mode(): the most frequent labels, sorted; missing cells not counted.
Mode(vals) ==
  SelectSeq(LabelOrder,
            LAMBDA l : /\ Count(vals, l) > 0
                       /\ \A m \in Range(LabelOrder) :
                            Count(vals, m) <= Count(vals, l))

HasNull(col) ==
  \E i \in 1..Len(col.vals) :
    col.vals[i] = (IF col.dtype = "object" THEN NaNLabel ELSE NaN)

\* The first text column whose cells are all missing: mode()[0] raises on it.
ModeFails(t) ==
  { j \in 1..Len(t) : /\ t[j].dtype = "object"
                      /\ HasNull(t[j])
                      /\ Mode(t[j].vals) = << >> }

\* handle_missing_values: numeric columns get their median, then text columns
\* their mode, column after column up to the column on which mode()[0]
\* raises.
handle_missing_values(t) ==
  LET FirstModeFailure ==
        IF ModeFails(t) = {} THEN Len(t) + 1
        ELSE CHOOSE j \in ModeFails(t) : \A k \in ModeFails(t) : j <= k
  IN
  [ j \in 1..Len(t) |->
      IF t[j].dtype \in NUMERIC
        THEN [ t[j] EXCEPT !.vals = FillNa(@, Median(@)) ]
      ELSE IF t[j].dtype = "object" /\ HasNull(t[j])
                /\ j < FirstModeFailure
        THEN [ t[j] EXCEPT !.vals =
                 [ i \in 1..Len(@) |->
                     IF @[i] = NaNLabel THEN Mode(t[j].vals)[1] ELSE @[i] ] ]
      ELSE t[j] ]

\* a + b on two columns: missing when an operand is missing.
NaNSum(a, b) == IF a = NaN \/ b = NaN THEN NaN ELSE a + b

engineer_features(t) ==
  LET t1 == IF HasCol(t, "household_adults") /\ HasCol(t, "household_children")
              THEN SetCol(t, "household_size", "float64",
                          [ i \in 1..NRows(t) |->
                              NaNSum(Col(t, "household_adults").vals[i],
                                     Col(t, "household_children").vals[i]) ])
              ELSE t
      t2 == IF HasCol(t1, "doctor_recc_h1n1")
                 /\ HasCol(t1, "doctor_recc_seasonal")
              THEN SetCol(t1, "doctor_recc_both", "float64",
                          [ i \in 1..NRows(t1) |->
                              NaNSum(Col(t1, "doctor_recc_h1n1").vals[i],
                                     Col(t1, "doctor_recc_seasonal").vals[i]) ])
              ELSE t1
      behavior_cols ==
        SelectSeq(Columns(t2),
                  LAMBDA c : c \in { "behavioral_antiviral_meds" }
                                     \cup Range(safe_behaviors))
  IN IF behavior_cols = << >> THEN t2
     ELSE SetCol(t2, "safe_behavior_score", "float64",
                 [ i \in 1..NRows(t2) |-> RowSum(t2, behavior_cols, i) ])

\* Series.map(dict) on a column that holds numbers already: no cell is a key.
MapColumn(t, c, mapper) ==
  IF ~HasCol(t, c) THEN t
  ELSE LET mapped == IF Col(t, c).dtype = "object"
                       THEN MapDict(Col(t, c).vals, mapper)
                       ELSE [ i \in 1..NRows(t) |-> NaN ]
       IN SetCol(t, c, MapDtype(mapped), mapped)

ohe_cols == << "race", "sex", "marital_status", "rent_or_own" >>

\* The ordinal part of encode_categoricals, done on self.data in place.
encode_ordinals(t) ==
  MapColumn(MapColumn(t, "education", edu_order), "income_poverty", inc_order)

\* The one-hot part: each column present is replaced by its indicators,
\* appended at the end; self.data becomes a new table when one is present.
encode_one_hot(t) ==
  get_dummies(t, SelectSeq(ohe_cols, LAMBDA c : HasCol(t, c)))

encode_categoricals(t) == encode_one_hot(encode_ordinals(t))

\* DataPreprocessor(data): self.data = data.copy(). The column sets given to
\* the constructor are the full survey file and a file without some
\* required, optional, ordinal and nominal columns; the rows have three
\* races, missing numeric cells, missing and unknown labels.
InitDP ==
  /\ raw \in { Batch(cols, idx) :
                cols \in { RawCols,
                           Without(RawCols,
                                   { "respondent_id", "h1n1_concern",
                                     "education", "hhs_geo_region",
                                     "census_msa", "sex", "rent_or_own" }) },
                idx \in { s \in BatchIdx :
                           \A i \in 1..Len(s) :
                             s[i] \in { 1, 2, 3, 6, 9, 10 } } }
  /\ df = copy(raw).table
  /\ shared = ~copy(raw).fresh
  /\ pc = "dp"
  /\ err = NoError
  /\ session = << >>
  /\ uploads = 1
  /\ calls = 0
  /\ explore = NoExplore
  /\ model = Classifier
  /\ index = Index(raw)
  /\ history = << >>

\* A method call on the object: t is self.data afterwards, inplace the table
\* the object bound before the call has become, e the exception raised.
DPCall(t, inplace, rebound, e) ==
  /\ pc = "dp"
  /\ df' = t
  /\ raw' = IF shared THEN inplace ELSE raw
  /\ shared' = (shared /\ ~rebound)
  /\ err' = e
  /\ UNCHANGED << pc, session, uploads, calls, explore, model,
                  index, history >>

DPValidateData == DPCall(df, df, FALSE, validate_data(df))

DPDropUnusedColumns == DPCall(drop_unused_columns(df), df, TRUE, NoError)

\* One stage method applied to self.data = t: the table afterwards and the
\* exception raised. self.data[col].fillna(value, inplace=True) fills the
\* column of self.data under the classic semantics of pandas and only a
\* temporary under copy-on-write; mode()[0] is evaluated in both.
StageResult(name, t, copy_on_write) ==
  CASE name = "validate_data" ->
         [ table |-> t, err |-> validate_data(t) ]
    [] name = "drop_unused_columns" ->
         [ table |-> drop_unused_columns(t), err |-> NoError ]
    [] name = "handle_missing_values" ->
         [ table |-> IF copy_on_write THEN t ELSE handle_missing_values(t),
           err |-> IF ModeFails(t) = {} THEN NoError
                   ELSE KeyError(<< "0" >>) ]
    [] name = "engineer_features" ->
         [ table |-> engineer_features(t), err |-> NoError ]
    [] name = "encode_categoricals" ->
         [ table |-> encode_categoricals(t), err |-> NoError ]
    [] name = "split_features_labels" ->
         [ table |-> t, err |-> AttributeError("is_training_data") ]

\* A chain of stage calls a.b().c()...: it stops at the first exception.
RECURSIVE RunStages(_, _, _)
RunStages(t, stages, copy_on_write) ==
  IF stages = << >> THEN [ table |-> t, err |-> NoError ]
  ELSE LET r == StageResult(Head(stages), t, copy_on_write) IN
         IF r.err # NoError THEN r
         ELSE RunStages(r.table, Tail(stages), copy_on_write)

DPHandleMissingValues ==
  \E copy_on_write \in BOOLEAN :
    LET r == StageResult("handle_missing_values", df, copy_on_write) IN
      DPCall(r.table, r.table, FALSE, r.err)

DPEngineerFeatures ==
  DPCall(engineer_features(df), engineer_features(df), FALSE, NoError)

DPEncodeCategoricals ==
  DPCall(encode_categoricals(df), encode_ordinals(df),
         \E c \in Range(ohe_cols) : HasCol(df, c), NoError)

\* self.is_training_data is never assigned.
DPSplitFeaturesLabels ==
  DPCall(df, df, FALSE, AttributeError("is_training_data"))

\* DataPreprocessor.preprocess(): the whole chain on the object. The state
\* after the call is kept apart so that the outcome of the call can be read;
\* get_processed_data() returns df.
DPPreprocess ==
  /\ pc = "dp"
  /\ pc' = "dp_preprocess"
  /\ \E copy_on_write \in BOOLEAN :
       LET r == RunStages(df, << "validate_data", "drop_unused_columns",
                                 "handle_missing_values", "engineer_features",
                                 "encode_categoricals",
                                 "split_features_labels" >>,
                          copy_on_write)
       IN
         /\ df' = r.table
         /\ err' = r.err
         /\ shared' = (shared /\ r.err.type = "ValueError")
  /\ UNCHANGED << raw, session, uploads, calls, explore, model,
                  index, history >>

\* app.py on an uploaded file with the cells of raw: pd.read_csv, a new
\* DataPreprocessor(raw_data), the chain,
\* get_processed_data() and the session entry; any exception is caught and
\* shown by st.error. The step is taken from the state after construction.
AppUpload ==
  /\ pc = "dp"
  /\ err = NoError
  /\ SameTable(df, raw)
  /\ \E copy_on_write \in BOOLEAN :
       LET r == RunStages(copy(read_csv(raw)).table,
                          << "validate_data", "drop_unused_columns",
                             "handle_missing_values", "engineer_features",
                             "encode_categoricals" >>,
                          copy_on_write)
       IN
         /\ df' = r.table
         /\ err' = r.err
         /\ pc' = IF r.err = NoError THEN "app_done" ELSE "app_error"
         /\ session' =
              IF r.err # NoError THEN session
              ELSE [ k \in DOMAIN session \cup { "preprocessed_data" } |->
                       IF k = "preprocessed_data" THEN r.table
                                                  ELSE session[k] ]
  /\ shared' = FALSE
  /\ UNCHANGED << raw, uploads, calls, explore, model,
                  index, history >>

NextDP ==
  \/ DPValidateData
  \/ DPDropUnusedColumns
  \/ DPHandleMissingValues
  \/ DPEngineerFeatures
  \/ DPEncodeCategoricals
  \/ DPSplitFeaturesLabels
  \/ DPPreprocess
  \/ AppUpload

SpecDP == InitDP /\ [][NextDP]_vars

\* Both entry points side by side.
SpecAll == (Init \/ InitDP) /\ [][Next \/ NextDP]_vars

(***************************************************************************)
(* Recommendations (src/recommendation_generator.py and                    *)
(* src/pages/Recommendation.py)                                            *)
(* raw is the results table given to the function, df the value it         *)
(* returns, session["target_column"] the argument of the call.             *)
(***************************************************************************)
\* The barrier flags in the order create_profile tests them: the column
\* compared, the comparison, its threshold and the name put in the profile.
barrier_flags ==
  << [ flag |-> "no_doc_rec", col |-> "doctor_recc_both",
       test |-> "==", k |-> 0, label |-> "No Doctor Rec" ],
     [ flag |-> "low_vaccine_belief", col |-> "opinion_h1n1_vacc_effective",
       test |-> "<=", k |-> 2, label |-> "Low Vaccine Belief" ],
     [ flag |-> "low_risk_perception", col |-> "opinion_h1n1_risk",
       test |-> "<=", k |-> 2, label |-> "Low Risk Perception" ],
     [ flag |-> "low_knowledge", col |-> "h1n1_knowledge",
       test |-> "<=", k |-> 1, label |-> "Low Knowledge" ],
     [ flag |-> "no_insurance", col |-> "health_insurance",
       test |-> "==", k |-> 0, label |-> "No Insurance" ],
     [ flag |-> "low_safe_behavior", col |-> "safe_behavior_score",
       test |-> "<=", k |-> 2, label |-> "Low Safe Behavior" ] >>

\* " + ".join(profile)
RECURSIVE Join(_)
Join(names) ==
  IF Len(names) = 1 THEN names[1]
  ELSE names[1] \o " + " \o Join(Tail(names))

\* The profile of row i as the sequence of names that create_profile joins;
\* the profile string is Join of it. A comparison with a missing cell is
\* False.
create_profile(t, i) ==
  LET v(b) == Col(t, b.col).vals[i]
      flag(b) == IF b.test = "==" THEN v(b) = Num(b.k)
                 ELSE v(b) # NaN /\ v(b) <= Num(b.k)
      profile == SelectSeq(barrier_flags, flag)
  IN
    IF profile = << >> THEN << "No Major Barriers" >>
    ELSE [ k \in 1..Len(profile) |-> profile[k].label ]

\* recommendation_map in insertion order; each key as the names it joins.
recommendation_map ==
  << [ key |-> << "No Doctor Rec", "Low Vaccine Belief" >>,
       action |-> "Use CHVs and mobile clinics." ],
     [ key |-> << "Low Knowledge", "No Insurance" >>,
       action |-> "Send SMS reminders and promote free access." ],
     [ key |-> << "Low Risk Perception", "Low Vaccine Belief" >>,
       action |-> "Mass media campaigns highlighting flu dangers." ],
     [ key |-> << "Low Safe Behavior", "Low Knowledge" >>,
       action |-> "Distribute hygiene & flu education materials." ],
     [ key |-> << "No Insurance" >>,
       action |-> "Partner with community groups to lower financial barriers." ],
     [ key |-> << "Low Vaccine Belief" >>,
       action |-> "Use trusted leaders to spread vaccine facts." ],
     [ key |-> << "No Major Barriers" >>,
       action |-> "General encouragement via SMS or posters." ] >>

\* key in profile is a test on the strings Join(key) and Join(profile): no
\* name holds " + " and none is a prefix or a suffix of another, so the key
\* is a substring exactly when its names are consecutive names of the
\* profile.
map_recommendation(profile) ==
  LET KeyIn(e) == \E o \in 0..(Len(profile) - Len(e.key)) :
                    \A j \in 1..Len(e.key) : profile[o + j] = e.key[j]
      hits == SelectSeq(recommendation_map, KeyIn)
  IN
    IF hits = << >>
      THEN "General outreach: education, access, and trust-building."
      ELSE hits[1].action

\* Variant: every row is taken, whatever its target cell.
non_takers_all(t, target_column) == { i \in 1..NRows(t) : TRUE }

\* df[df[target_column] == 0]: the rows kept, by position.
non_takers(t, target_column) ==
  { i \in 1..NRows(t) : Col(t, target_column).vals[i] = Num(0) }

\* value_counts(): one entry per distinct profile, larger counts first; the
\* order among equal counts is the sort's.
profile_orders(t, rows) ==
  LET profiles == { create_profile(t, i) : i \in rows }
      count(p) == Cardinality({ i \in rows : create_profile(t, i) = p })
  IN { o \in [ 1..Cardinality(profiles) -> profiles ] :
         /\ \A a, b \in DOMAIN o : a # b => o[a] # o[b]
         /\ \A a, b \in DOMAIN o : a < b => count(o[a]) >= count(o[b]) }

\* profile_counts with its three columns, for one order of the profiles.
\* Without any row selected, apply and value_counts give empty float64
\* Series, and the two text columns are float64.
profile_counts(t, rows, order) ==
  << [ name |-> "barrier_profile",
       dtype |-> IF order = << >> THEN "float64" ELSE "object",
       vals |-> [ k \in 1..Len(order) |-> Join(order[k]) ] ],
     [ name |-> "people_affected", dtype |-> "int64",
       vals |-> [ k \in 1..Len(order) |->
                    Num(Cardinality({ i \in rows :
                                        create_profile(t, i) = order[k] })) ] ],
     [ name |-> "recommended_action",
       dtype |-> IF order = << >> THEN "float64" ELSE "object",
       vals |-> [ k \in 1..Len(order) |-> map_recommendation(order[k]) ] ] >>

\* Columns of a results table: the two labels, the barrier sources and
\* three text columns.
ResultCols ==
  << "h1n1_label", "seasonal_label", "doctor_recc_both",
     "opinion_h1n1_vacc_effective", "opinion_h1n1_risk", "h1n1_knowledge",
     "health_insurance", "safe_behavior_score", "sex", "hhs_geo_region",
     "census_msa" >>

\* Rows of a results table, cell by cell in the order of ResultCols: a
\* taker, a non-taker without barrier, non-takers with one, two and six
\* barriers, and a row with missing cells.
ResultRowList ==
  << << 1, 0, 2, 4, 4, 2, 1, 4, "Male", "lzgpxyit", "Non-MSA" >>,
     << 0, 1, 1, 4, 4, 2, 1, 4, "Female", "lzgpxyit", "Non-MSA" >>,
     << 0, 0, 1, 2, 1, 2, 1, 4, "Male", "fpwskwrf", "Non-MSA" >>,
     << 0, 0, 1, 4, 4, 1, 1, 2, "Female", "fpwskwrf", "MSA, Principle City" >>,
     << 0, 1, 0, 1, 4, 2, 1, 4, "Male", "lzgpxyit", "MSA, Principle City" >>,
     << 0, 0, 2, 5, 3, 0, 0, 5, "Female", "lzgpxyit", "Non-MSA" >>,
     << 0, 1, 1, 3, 3, 2, 0, 3, "Male", "fpwskwrf", "Non-MSA" >>,
     << NaN, 0, NaN, NaN, 2, 2, NaN, 6, NaNLabel, "lzgpxyit", "Non-MSA" >>,
     << 0, 1, 1, 4, 2, 2, 1, 4, "Male", "lzgpxyit", "MSA, Principle City" >>,
     << 0, 0, 0, 1, 1, 0, 0, 0, "Female", "fpwskwrf", "Non-MSA" >> >>

\* The results tables of up to MaxRows rows, the empty one included.
ResultTables ==
  LET ResultIdx ==
        UNION { { s \in [1..n -> 1..Len(ResultRowList)] :
                    \A i \in 1..(n - 1) : s[i] <= s[i + 1] } : n \in 0..MaxRows }
      ResultTable(idx) ==
        [ j \in 1..Len(ResultCols) |->
            [ name |-> ResultCols[j],
              dtype |-> IF j <= 8 THEN "float64" ELSE "object",
              vals |-> [ i \in 1..Len(idx) |->
                           LET v == ResultRowList[idx[i]][j] IN
                             IF j > 8 \/ v = NaN THEN v ELSE Num(v) ] ] ]
  IN { ResultTable(idx) : idx \in ResultIdx }

InitRec ==
  /\ raw \in ResultTables
  /\ df = NoTable
  /\ pc = "results"
  /\ err = NoError
  /\ shared = FALSE
  /\ session = << >>
  /\ uploads = 1
  /\ calls = 0
  /\ explore = NoExplore
  /\ model = Classifier
  /\ index = Index(raw)
  /\ history = << >>

\* generate_recommendation_summary(df, target_column): the first absent
\* column raises KeyError; otherwise the summary is returned. The flags and
\* the profile are columns of the copy non_takers, never of df. The target
\* column is the default or one of the two the callers pass.
GenerateRecommendationSummary ==
  /\ pc = "results"
  /\ \E target_column \in { "h1n1_vaccine_pred", "h1n1_label", "seasonal_label" } :
       LET reads == << target_column >>
                      \o [ k \in 1..Len(barrier_flags) |-> barrier_flags[k].col ]
       IN
       /\ session' = [ k \in { "target_column" } |-> target_column ]
       /\ IF MissingOf(raw, reads) # << >>
            THEN /\ pc' = "rec_raised"
                 /\ err' = KeyError(<< Head(MissingOf(raw, reads)) >>)
                 /\ df' = df
            ELSE /\ pc' = "rec_done"
                 /\ err' = err
                 /\ \E order \in profile_orders(raw, non_takers(raw, target_column)) :
                      df' = profile_counts(raw, non_takers(raw, target_column), order)
  /\ UNCHANGED << raw, shared, uploads, calls, explore, model,
                  index, history >>

columns_to_drop ==
  << "employment_industry", "employment_occupation", "hhs_geo_region",
     "census_msa" >>

MaxUnique == 20

\* A float64 between 0 and 2 is written as the bits of its binary expansion:
\* bit 1 weighs 2, bit 2 weighs 1 and bit 2 + i weighs 2^-i; the empty
\* sequence is NaN.
\* The float64 nearest to the number with the bits x: 53 significant bits
\* are kept and the rest is rounded to nearest, ties to even.
float_round(x) ==
  IF \A i \in 1..Len(x) : x[i] = 0 THEN x
  ELSE
    LET lead == CHOOSE i \in 1..Len(x) :
                  x[i] = 1 /\ \A j \in 1..(i - 1) : x[j] = 0
        last == lead + 52
        up == /\ last < Len(x)
              /\ x[last + 1] = 1
              /\ \/ x[last] = 1
                 \/ \E i \in (last + 2)..Len(x) : x[i] = 1
        zero == CHOOSE z \in 0..last :
                  /\ z = 0 \/ x[z] = 0
                  /\ \A j \in (z + 1)..last : x[j] = 1
    IN [ i \in 1..Len(x) |->
           CASE i > last -> 0
             [] up /\ i = zero -> 1
             [] up /\ i > zero -> 0
             [] OTHER -> x[i] ]

\* p / q in float64, for 0 <= p <= q: long division gives the bits of the
\* quotient, far enough for the rounding to be exact.
float_div(p, q) ==
  LET RECURSIVE digits(_, _)
      digits(r, k) ==
        IF k = 1
          THEN [ bits |-> << IF 2 * r >= q THEN 1 ELSE 0 >>,
                 rem |-> (2 * r) % q ]
          ELSE LET high == digits(r, k \div 2)
                   low == digits(high.rem, k - k \div 2)
               IN [ bits |-> high.bits \o low.bits, rem |-> low.rem ]
  IN float_round(<< 0, p \div q >> \o digits(p % q, 116).bits)

\* x + y in float64.
float_add(x, y) ==
  LET carry(i) == \E j \in (i + 1)..Len(x) :
                    /\ x[j] = 1
                    /\ y[j] = 1
                    /\ \A k \in (i + 1)..(j - 1) : x[k] + y[k] = 1
  IN float_round([ i \in 1..Len(x) |->
                     (x[i] + y[i] + IF carry(i) THEN 1 ELSE 0) % 2 ])

\* x < y in float64, neither of them NaN.
float_less(x, y) ==
  \E i \in 1..Len(x) : x[i] < y[i] /\ \A j \in 1..(i - 1) : x[j] = y[j]

\* One group of df.groupby(col)[labels].mean() and its mean(axis=1): the
\* mean of a label is the sum of its cells that are not missing divided by
\* their number, NaN without any; the mean of the two means skips a NaN: it
\* is their sum divided by 2, the one that is not NaN, or NaN.
group_score(t, col, g) ==
  LET rows == { i \in 1..NRows(t) : Col(t, col).vals[i] = g }
      have(l) == { i \in rows : Col(t, l).vals[i] # NaN }
      ones(l) == Cardinality({ i \in have(l) : Col(t, l).vals[i] = Num(1) })
      mean(l) == IF have(l) = {} THEN << >>
                 ELSE float_div(ones(l), Cardinality(have(l)))
      h1n1 == mean("h1n1_label")
      seasonal == mean("seasonal_label")
      half(x) == [ i \in 1..Len(x) |-> IF i = 1 THEN 0 ELSE x[i - 1] ]
  IN [ group |-> g,
       mean |-> CASE h1n1 = << >> -> seasonal
                  [] seasonal = << >> -> h1n1
                  [] OTHER -> half(float_add(h1n1, seasonal)) ]

\* group_stats[group_stats.mean(axis=1) < 0.4]: groupby leaves the missing
\* cells of col out, and NaN < 0.4 is false.
high_risk_groups(t, col) ==
  { s \in { group_score(t, col, g) :
              g \in Range(Col(t, col).vals) \ { NaNLabel } } :
      s.mean # << >> /\ float_less(s.mean, float_div(2, 5)) }

\* _find_high_risk_groups(df, categorical_cols): filtered_cols, the list
\* without columns_to_drop, is built and not read again; the loop runs over
\* categorical_cols, and a column gets an entry when it has fewer than
\* MaxUnique distinct labels (missing cells not counted) and a group under
\* the threshold.
find_high_risk_groups(t, cols) ==
  LET filtered_cols == SelectSeq(cols, LAMBDA c : c \notin Range(columns_to_drop))
      nunique(c) == Cardinality(Range(Col(t, c).vals) \ { NaNLabel })
      looped == SelectSeq(cols,
                   LAMBDA c : /\ nunique(c) < MaxUnique
                              /\ high_risk_groups(t, c) # {})
  IN [ k \in 1..Len(looped) |->
         [ col |-> looped[k], groups |-> high_risk_groups(t, looped[k]) ] ]

\* str(nan), the text astype(str) writes where a cell is missing: a label
\* like any other, no longer a missing cell.
StrNaN == "'nan'"

\* df[col] = df[col].astype(str)
astype_str(col) ==
  [ col EXCEPT !.vals = [ i \in 1..Len(col.vals) |->
                            IF col.vals[i] = NaNLabel THEN StrNaN
                            ELSE col.vals[i] ] ]

\* VaccineAnalyzer.analyze_data, its first step: every text column of the
\* caller's results table is replaced by its astype(str), and the names of
\* these columns are handed to _find_high_risk_groups with the table.
FindHighRiskGroups ==
  /\ pc = "results"
  /\ pc' = "risk_done"
  /\ LET text == SelectSeq(raw, LAMBDA col : col.dtype = "object")
         categorical_cols == [ k \in 1..Len(text) |-> text[k].name ]
         prepared == [ j \in 1..Len(raw) |->
                         IF raw[j].dtype = "object" THEN astype_str(raw[j])
                         ELSE raw[j] ]
     IN /\ raw' = prepared
        /\ df' = find_high_risk_groups(prepared, categorical_cols)
  /\ UNCHANGED << err, shared, session, uploads, calls, explore, model,
                  index, history >>

SpecRec ==
  InitRec /\ [][GenerateRecommendationSummary \/ FindHighRiskGroups]_vars

(***************************************************************************)
(* Reading the call's result                                               *)
(***************************************************************************)
Done == pc = "done"

RawVal(c, i) == Col(raw, c).vals[i]

Out(c, i) == Col(df, c).vals[i]

Rows == 1..NRows(raw)

\* The batch brings no column of its own under the label of an engineered
\* indicator column.
NoLabelClash == \A c \in Range(cats) : \A j \in 1..Len(raw) :
                  raw[j].name \notin { c \o "_" \o l : l \in Range(LexOrder) }

ResultRow(t, i) == [ j \in 1..Len(t) |-> t[j].vals[i] ]

\* Row i has no missing cell and its ordinal labels are dictionary keys.
CompleteRow(t, i) ==
  /\ \A j \in 1..Len(t) :
       IF t[j].dtype = "object" THEN t[j].vals[i] # NaNLabel
                                ELSE t[j].vals[i] # NaN
  /\ \A k \in 1..Len(ordinal_maps) :
       HasCol(t, ordinal_maps[k].col) =>
         Col(t, ordinal_maps[k].col).vals[i] \in DOMAIN ordinal_maps[k].mapper

(***************************************************************************)
(* Claims                                                                  *)
(***************************************************************************)

\* C1: whenever preprocess returns, the returned table has exactly the 27
\* columns of EXPECTED_COLS, in that order, none duplicated, whatever extra
\* columns the batch has.
C1_ExactColumns == Done => Columns(df) = EXPECTED_COLS

\* C2: for every valid batch, every cell of the returned table is numeric and
\* non-missing, also when a numeric column of the batch has no value at all.
C2_NoMissingCell ==
  (Done /\ NoLabelClash) =>
    \A j \in 1..Len(df) :
      /\ df[j].dtype \in NUMERIC \cup { "bool" }
      /\ \A i \in Rows : df[j].vals[i] # NaN

\* C3: the output vector of a row that has no missing value and only known
\* ordinal labels is the same in every batch that contains the row; stated
\* against the batch that contains the row alone.
C3_RowIndependent ==
  (Done /\ NoLabelClash) =>
    \A i \in Rows :
      CompleteRow(raw, i) =>
        ResultRow(df, i) = ResultRow(preprocess(Alone(raw, i)), 1)

\* C4: a row whose nominal value is a non-reference category (one that has an
\* indicator among the expected columns) has that indicator equal to 1 in the
\* output of every batch.
C4_FixedReference ==
  (Done /\ NoLabelClash) =>
    \A i \in Rows : \A k \in 1..Len(cats) :
      LET label == cats[k] \o "_" \o RawVal(cats[k], i) IN
        label \in Range(EXPECTED_COLS) => Out(label, i) = Num(1)

\* C5: the end-to-end scenario row, submitted as a batch, yields age_group 0,
\* education 3, income_poverty 2, household_size 1, doctor_recc_both 1,
\* safe_behavior_score 6, health_insurance 1, race_White 1, sex_Male 1 and 0
\* for the marital, tenure and employment indicators.
C5_Scenario ==
  (Done /\ raw = Batch(RawCols, << 1 >>)) =>
    /\ Out("age_group", 1) = Num(0)
    /\ Out("education", 1) = Num(3)
    /\ Out("income_poverty", 1) = Num(2)
    /\ Out("household_size", 1) = Num(1)
    /\ Out("doctor_recc_both", 1) = Num(1)
    /\ Out("safe_behavior_score", 1) = Num(6)
    /\ Out("health_insurance", 1) = Num(1)
    /\ Out("race_White", 1) = Num(1)
    /\ Out("sex_Male", 1) = Num(1)
    /\ Out("marital_status_Not Married", 1) = Num(0)
    /\ Out("rent_or_own_Rent", 1) = Num(0)
    /\ Out("employment_status_Not in Labor Force", 1) = Num(0)
    /\ Out("employment_status_Unemployed", 1) = Num(0)

\* C6: health_insurance in the output is 1 for raw 1.0, 0 for raw 0.0 and -1
\* for a missing or any other raw value; nothing else appears.
C6_HealthInsuranceTernary ==
  Done =>
    \A i \in Rows :
      /\ Out("health_insurance", i) =
           IF RawVal("health_insurance", i) = Num(1) THEN Num(1)
           ELSE IF RawVal("health_insurance", i) = Num(0) THEN Num(0)
           ELSE Num(-1)
      /\ Out("health_insurance", i) \in { Num(-1), Num(0), Num(1) }

C6_Witness ==
  /\ Done
  /\ \E i, j, k \in Rows :
       /\ RawVal("health_insurance", i) = NaN
       /\ RawVal("health_insurance", j) = Num(2)
       /\ RawVal("health_insurance", k) = Num(0)
       /\ Out("health_insurance", i) = Num(-1)
       /\ Out("health_insurance", j) = Num(-1)
       /\ Out("health_insurance", k) = Num(0)

\* C7: a row whose raw health_insurance is missing ends with -1, never with
\* the median of the other rows' values, whatever the batch.
C7_UnknownKept ==
  Done =>
    \A i \in Rows :
      RawVal("health_insurance", i) = NaN =>
        Out("health_insurance", i) = Num(-1)

C7_Witness ==
  /\ Done
  /\ \E i, j \in Rows :
       /\ RawVal("health_insurance", i) = NaN
       /\ RawVal("health_insurance", j) = Num(1)
       /\ Median(Col(raw, "health_insurance").vals) = Num(1)
       /\ Out("health_insurance", i) = Num(-1)

\* C8: household_size of every output row is household_adults plus
\* household_children of that row with a missing one counted as 0 (2 and 1
\* give 3; missing and 1 give 1), whatever the other rows are.
C8_HouseholdSize ==
  Done =>
    \A i \in Rows :
      LET a == RawVal("household_adults", i)
          c == RawVal("household_children", i)
      IN /\ Out("household_size", i) =
              (IF a = NaN THEN 0 ELSE a) + (IF c = NaN THEN 0 ELSE c)
         /\ (a = Num(2) /\ c = Num(1)) => Out("household_size", i) = Num(3)
         /\ (a = NaN /\ c = Num(1)) => Out("household_size", i) = Num(1)

C8_Witness ==
  /\ Done
  /\ \E i, j \in Rows :
       /\ RawVal("household_adults", i) = Num(2)
       /\ RawVal("household_children", i) = Num(1)
       /\ Out("household_size", i) = Num(3)
       /\ RawVal("household_adults", j) = NaN
       /\ RawVal("household_children", j) = Num(1)
       /\ Out("household_size", j) = Num(1)

\* C9: with the six behavioural indicators each 0, 1 or missing,
\* safe_behavior_score is the number of indicators equal to 1, an integer in
\* 0..6; behavioral_antiviral_meds does not contribute.
C9_SafeBehaviorScore ==
  Done =>
    \A i \in Rows :
      (\A b \in Range(safe_behaviors) :
          RawVal(b, i) \in { Num(0), Num(1), NaN }) =>
        /\ Out("safe_behavior_score", i) =
             Num(Cardinality({ b \in Range(safe_behaviors) :
                                 RawVal(b, i) = Num(1) }))
        /\ Out("safe_behavior_score", i) \in { Num(n) : n \in 0..6 }

C9_Witness ==
  /\ Done
  /\ \E i, j \in Rows :
       /\ RawVal("behavioral_antiviral_meds", i) = Num(1)
       /\ \A b \in Range(safe_behaviors) : RawVal(b, i) = Num(0)
       /\ Out("safe_behavior_score", i) = Num(0)
       /\ RawVal("behavioral_wash_hands", j) = NaN
       /\ RawVal("behavioral_touch_face", j) = Num(0)
       /\ Out("safe_behavior_score", j) = Num(4)

\* C10: with doctor_recc_h1n1 and doctor_recc_seasonal each 0, 1 or missing,
\* doctor_recc_both is their sum with missing counted as 0, a value in
\* {0,1,2}, and neither source column is a column of the returned table.
C10_DoctorReccBoth ==
  Done =>
    /\ \A i \in Rows :
         LET h == RawVal("doctor_recc_h1n1", i)
             s == RawVal("doctor_recc_seasonal", i)
         IN ({ h, s } \subseteq { Num(0), Num(1), NaN }) =>
              /\ Out("doctor_recc_both", i) =
                   (IF h = NaN THEN 0 ELSE h) + (IF s = NaN THEN 0 ELSE s)
              /\ Out("doctor_recc_both", i) \in { Num(0), Num(1), Num(2) }
    /\ "doctor_recc_h1n1" \notin Range(Columns(df))
    /\ "doctor_recc_seasonal" \notin Range(Columns(df))

C10_Witness ==
  /\ Done
  /\ HasCol(raw, "doctor_recc_h1n1") /\ HasCol(raw, "doctor_recc_seasonal")
  /\ \E i, j \in Rows :
       /\ RawVal("doctor_recc_h1n1", i) = NaN
       /\ RawVal("doctor_recc_seasonal", i) = Num(1)
       /\ Out("doctor_recc_both", i) = Num(1)
       /\ RawVal("doctor_recc_h1n1", j) = Num(1)
       /\ RawVal("doctor_recc_seasonal", j) = Num(1)
       /\ Out("doctor_recc_both", j) = Num(2)

\* C11: in the returned table an ordinal column holds the dictionary's integer
\* for every label that is a key and, for every other value (a missing cell,
\* a casing or whitespace variant), the median of the batch's codes; such a
\* value becomes a missing cell at the encoding stage and never an error.
OrdinalCodes(k) == MapDict(Col(raw, ordinal_maps[k].col).vals,
                           ordinal_maps[k].mapper)

C11_OrdinalThenMedian ==
  \A k \in 1..Len(ordinal_maps) :
    HasCol(raw, ordinal_maps[k].col) =>
      /\ pc = "household_size" =>
           Col(df, ordinal_maps[k].col).vals = OrdinalCodes(k)
      /\ Done =>
           \A i \in Rows :
             Out(ordinal_maps[k].col, i) =
               IF RawVal(ordinal_maps[k].col, i)
                    \in DOMAIN ordinal_maps[k].mapper
                 THEN Num(ordinal_maps[k].mapper[RawVal(ordinal_maps[k].col, i)])
                 ELSE Median(OrdinalCodes(k))
      /\ pc = "raised" => ordinal_maps[k].col \notin Range(err.args)

C11_Witness ==
  /\ Done
  /\ HasCol(raw, "age_group")
  /\ \E i, j \in Rows :
       /\ RawVal("age_group", i) = " 18 - 34 Years"
       /\ RawVal("age_group", j) = "65+ Years"
       /\ Out("age_group", i) # NaN
       /\ Out("age_group", i) = Median(OrdinalCodes(3))
       /\ Out("age_group", j) = Num(4)

\* C12: every cell of an ordinal column of the returned table is one of the
\* integer codes of its dictionary, imputed cells included.
C12_IntegerCodes ==
  Done =>
    \A k \in 1..Len(ordinal_maps) :
      HasCol(raw, ordinal_maps[k].col) =>
        \A i \in Rows :
          Out(ordinal_maps[k].col, i)
            \in { Num(ordinal_maps[k].mapper[l]) :
                    l \in DOMAIN ordinal_maps[k].mapper }

\* C13: in the returned table a numeric column that no stage rewrites has its
\* non-missing cells unchanged and its missing cells equal to the median of
\* the column's non-missing cells in this batch; when removing another row
\* changes that median, the call on the smaller batch imputes the new median.
PassThrough ==
  { c \in Range(EXPECTED_COLS) \cap Range(RawCols) :
      /\ RawDtype(c) \in NUMERIC
      /\ c # "health_insurance" }

C13_BatchMedian ==
  Done =>
    \A c \in PassThrough :
      HasCol(raw, c) =>
        \A i \in Rows :
          IF RawVal(c, i) # NaN
            THEN Out(c, i) = RawVal(c, i)
            ELSE /\ Out(c, i) = Median(Col(raw, c).vals)
                 /\ \A j \in Rows \ { i } :
                      Median(Col(DropRow(raw, j), c).vals)
                          # Median(Col(raw, c).vals)
                        => Col(preprocess(DropRow(raw, j)), c)
                             .vals[IF j < i THEN i - 1 ELSE i] # Out(c, i)

C13_Witness ==
  /\ Done
  /\ HasCol(raw, "h1n1_concern")
  /\ Col(raw, "h1n1_concern").vals = << Num(0), NaN, Num(2) >>
  /\ Col(df, "h1n1_concern").vals = << Num(0), Num(1), Num(2) >>
  /\ Col(preprocess(DropRow(raw, 1)), "h1n1_concern").vals
       = << Num(2), Num(2) >>

\* C14: a one-hot expansion (pipeline.preprocess's and encode_categoricals')
\* replaces a nominal column by one indicator column per category present in
\* the batch except the alphabetically first one, named column_category, in
\* alphabetical order; a row has 1 in the indicator of its own category and 0
\* in the others, so at most one indicator of the column is 1.
Present(t, c) == { l \in Range(LabelOrder) :
                     \E i \in 1..NRows(t) : Col(t, c).vals[i] = l }

Position(l) == CHOOSE k \in 1..Len(LabelOrder) : LabelOrder[k] = l

Reference(t, c) ==
  CHOOSE l \in Present(t, c) :
    \A m \in Present(t, c) : Position(l) <= Position(m)

Indicators(t, c) ==
  IF Present(t, c) = {} THEN {} ELSE Present(t, c) \ { Reference(t, c) }

Expanded(before, after, c) ==
  LET ind == Indicators(before, c)
      names == { after[j].name : j \in 1..Len(after) }
  IN /\ c \notin names
     /\ \A l \in Range(LabelOrder) : (c \o "_" \o l) \in names <=> l \in ind
     /\ \A l, m \in ind :
          Position(l) < Position(m) =>
            ColIndex(after, c \o "_" \o l) < ColIndex(after, c \o "_" \o m)
     /\ \A i \in 1..NRows(before) :
          /\ \A l \in ind :
               Col(after, c \o "_" \o l).vals[i] =
                 IF Col(before, c).vals[i] = l THEN Num(1) ELSE Num(0)
          /\ Cardinality({ l \in ind :
                             Col(after, c \o "_" \o l).vals[i] = Num(1) }) <= 1

\* The step is the one-hot stage of preprocess, or a DataPreprocessor call
\* that takes a nominal column away (only encode_categoricals does).
C14_ReferenceExcluded ==
  [][ /\ (pc = "one_hot" /\ pc' = "impute" /\ NoLabelClash) =>
           \A c \in Range(cats) : Expanded(df, df', c)
      /\ (pc = "dp" /\ pc' = "dp"
             /\ \E c \in Range(ohe_cols) : HasCol(df, c) /\ ~HasCol(df', c)) =>
           \A c \in Range(ohe_cols) : HasCol(df, c) => Expanded(df, df', c)
    ]_vars

C14_Witness ==
  /\ pc = "impute"
  /\ Present(raw, "employment_status")
       = { "Employed", "Not in Labor Force", "Unemployed" }
  /\ ~HasCol(df, "employment_status_Employed")
  /\ Col(df, "employment_status_Not in Labor Force").vals
       = << Num(0), Num(0), Num(1) >>
  /\ Col(df, "employment_status_Unemployed").vals
       = << Num(0), Num(1), Num(0) >>

\* C15: pruning tolerates absent columns and is idempotent. In preprocess the
\* two pruning loops never raise and leave exactly the batch's other columns;
\* pruning the pruned table again changes nothing. The same holds for
\* drop_unused_columns on every table a DataPreprocessor can hold.
pruned == id_and_targets \o high_missing

Kept(t, cs) == SelectSeq(t, LAMBDA col : col.name \notin Range(cs))

C15_PruneIdempotent ==
  /\ pc \in { "drop_id", "drop_high_missing" } => err = NoError
  /\ pc = "raised" => Range(err.args) \cap Range(pruned) = {}
  /\ pc = "health_insurance" =>
       /\ df = Kept(raw, pruned)
       /\ drop_high_missing(drop_id_targets(df)) = df
  /\ pc = "dp" =>
       /\ drop_unused_columns(df) = Kept(df, high_missing)
       /\ drop_unused_columns(drop_unused_columns(df))
            = drop_unused_columns(df)

C15_Witness ==
  /\ pc = "dp"
  /\ HasCol(raw, "census_msa")
  /\ ~HasCol(df, "census_msa")
  /\ ~HasCol(df, "hhs_geo_region")
  /\ Len(df) > 0
  /\ err = NoError

\* C16: no step of preprocess and no DataPreprocessor method changes the
\* table the caller passed in.
C16_RawUntouched == [][raw' = raw]_vars

C16_Witness ==
  /\ Done
  /\ HasCol(raw, "respondent_id")
  /\ ~HasCol(df, "respondent_id")
  /\ \E i \in Rows : RawVal("health_insurance", i) = NaN
                     /\ Out("health_insurance", i) = Num(-1)

\* C17: validate_data succeeds exactly when every required column is present;
\* otherwise it raises ValueError whose list holds every absent required
\* column, each once, in the order of the required list; the table is the
\* same after the call in both cases.
InRequiredOrder(args) ==
  \A a, b \in 1..Len(args) :
    a < b =>
      (CHOOSE k \in 1..Len(required_columns) : required_columns[k] = args[a])
        < (CHOOSE k \in 1..Len(required_columns) : required_columns[k] = args[b])

C17_ValidateData ==
  [][ pc = "dp" =>
        /\ (validate_data(df) = NoError)
             <=> (\A c \in Range(required_columns) : HasCol(df, c))
        /\ validate_data(df) # NoError =>
             /\ validate_data(df).type = "ValueError"
             /\ Range(validate_data(df).args)
                  = { c \in Range(required_columns) : ~HasCol(df, c) }
             /\ InRequiredOrder(validate_data(df).args)
        /\ err'.type = "ValueError" =>
             LET t == IF pc' = "app_error" THEN read_csv(raw) ELSE df IN
               /\ err' = validate_data(t)
               /\ SameTable(df', t)
    ]_vars

C17_Witness ==
  /\ pc = "dp"
  /\ err.type = "ValueError"
  /\ err.args = << "respondent_id", "h1n1_concern" >>
  /\ Columns(df) = Columns(raw)

\* C18: a table that lacks a required column never gets a feature matrix:
\* preprocess does not return one for it, none is stored in the session state
\* and none reaches the classifier.
LacksRequired(t) == MissingOf(t, required_columns) # << >>

C18_ValidatedFirst ==
  LacksRequired(raw) =>
    /\ pc \notin { "done", "predict", "ready", "predict_raised" }
    /\ "df_clean" \notin DOMAIN session

\* C19: when preprocess stops on an absent source column it raises
\* MissingSourceColumnError, whose arguments are the absent column and the
\* derived feature that needed it, and it returns no table.
DerivedFeature(c) ==
  CASE c = "health_insurance" -> "health_insurance"
    [] c \in { "household_adults", "household_children" } -> "household_size"
    [] c \in { "doctor_recc_h1n1", "doctor_recc_seasonal" } -> "doctor_recc_both"
    [] c \in Range(safe_behaviors) -> "safe_behavior_score"
    [] OTHER -> c

C19_MissingSourceColumnError ==
  pc = "raised" =>
    /\ err.type = "MissingSourceColumnError"
    /\ Len(err.args) = 2
    /\ ~HasCol(raw, err.args[1])
    /\ err.args[2] = DerivedFeature(err.args[1])
    /\ df = NoTable

C21_PredictOnce ==
  [][ pc = "predict_call" =>
        /\ calls' = calls + 1
        /\ raw' = raw
        /\ model' = model
        /\ pc' = "predict_returned" =>
             LET h == df'[1]
                 s == df'[2]
             IN /\ Len(df') = 2
                /\ Len(h.values) = NRows(raw)
                /\ Len(s.values) = NRows(raw)
                /\ h.index = index
                /\ s.index = index
                /\ \A i \in 1..NRows(raw) :
                     /\ h.values[i] = model_predict(model, raw)[i][1]
                     /\ s.values[i] = model_predict(model, raw)[i][2]
    ]_vars

C21_Witness ==
  /\ pc = "predict_returned"
  /\ calls = 1
  /\ NRows(raw) = 3
  /\ index = << 5, 3, 1 >>
  /\ df[1].index = << 5, 3, 1 >>
  /\ df[1].values = << 1, 0, 1 >>
  /\ df[2].values = << 0, 0, 1 >>

\* C23: once a Continue has ended with preprocess and predict both returning,
\* the Predictions, Recommendation and Pre-processing pages find the session
\* key their guard asks for.
C23_PagesProceed ==
  pc = "ready" =>
    /\ PredictionsProceeds
    /\ RecommendationProceeds
    /\ PreprocessPageProceeds

\* C26: whenever a Continue handler has ended, the four session entries are
\* all absent, or all present and made from one uploaded table.
C26_SessionConsistent ==
  HandlerEnded =>
    LET HomeKeys == { "df_clean", "raw_df", "h1n1_prob", "seasonal_prob" } IN
    \/ DOMAIN session \cap HomeKeys = {}
    \/ /\ HomeKeys \subseteq DOMAIN session
       /\ SameTable(session["df_clean"], preprocess(session["raw_df"]))
       /\ session["h1n1_prob"]
            = predict(model, session["df_clean"],
                      Index(session["df_clean"])).h1n1_label
       /\ session["seasonal_prob"]
            = predict(model, session["df_clean"],
                      Index(session["df_clean"])).seasonal_label

\* C27: the cleaned table a run of the Explore page works with is preprocess
\* applied to the raw_df the session holds at that run.
C27_ExploreFresh ==
  Len(explore.df_clean) > 0 =>
    SameTable(explore.df_clean, preprocess(session["raw_df"]))

\* C22: a call of DataPreprocessor.preprocess() on an object whose table has
\* every required column raises no error, and the table the object then
\* holds is the one the six stages give in order.
C22_PreprocessReturns ==
  (pc = "dp_preprocess" /\ ~LacksRequired(df)) =>
    /\ err = NoError
    /\ \A c \in Range(high_missing) : ~HasCol(df, c)
    /\ \A c \in Range(ohe_cols) : ~HasCol(df, c)

\* C24: handle_missing_values completes on every table the object can hold:
\* it raises nothing, leaves no missing cell in a numeric or a text column,
\* and keeps every cell that was not missing.
C24_ImputeCompletes ==
  pc = "dp" =>
    LET r == StageResult("handle_missing_values", df, FALSE) IN
      /\ r.err = NoError
      /\ \A j \in 1..Len(df) :
           /\ r.table[j].dtype \in NUMERIC \cup { "object" }
                => ~HasNull(r.table[j])
           /\ \A i \in 1..NRows(df) :
                df[j].vals[i] # (IF df[j].dtype = "object" THEN NaNLabel
                                                          ELSE NaN)
                  => r.table[j].vals[i] = df[j].vals[i]

\* C25: for a batch on which pipeline.preprocess returns, the table app.py
\* stores has in every row the household_size, the doctor_recc_both and the
\* safe_behavior_score that pipeline.preprocess computes.
C25_VariantsAgree ==
  (pc = "app_done"
     /\ MissingOf(raw, << "health_insurance", "household_adults",
                          "household_children", "doctor_recc_h1n1",
                          "doctor_recc_seasonal" >> \o safe_behaviors \o cats)
          = << >>) =>
    \A c \in { "household_size", "doctor_recc_both", "safe_behavior_score" } :
      /\ HasCol(session["preprocessed_data"], c)
      /\ Col(session["preprocessed_data"], c).vals
           = Col(preprocess(read_csv(raw)), c).vals

\* C28: generate_recommendation_summary looks at exactly the rows whose
\* target cell is 0, gives each of them one profile (the names of its true
\* barriers in the fixed order, or "No Major Barriers"), returns one summary
\* row per distinct profile with the number of such rows, the counts adding
\* up to the number of rows with target 0, and leaves the input table as it
\* was.
BarrierOrder ==
  << "No Doctor Rec", "Low Vaccine Belief", "Low Risk Perception",
     "Low Knowledge", "No Insurance", "Low Safe Behavior" >>

Barriers(t, i) ==
  LET cell(c) == Col(t, c).vals[i]
      low(c, k) == cell(c) # NaN /\ cell(c) <= Num(k)
  IN { b \in Range(BarrierOrder) :
         \/ b = "No Doctor Rec" /\ cell("doctor_recc_both") = Num(0)
         \/ b = "Low Vaccine Belief" /\ low("opinion_h1n1_vacc_effective", 2)
         \/ b = "Low Risk Perception" /\ low("opinion_h1n1_risk", 2)
         \/ b = "Low Knowledge" /\ low("h1n1_knowledge", 1)
         \/ b = "No Insurance" /\ cell("health_insurance") = Num(0)
         \/ b = "Low Safe Behavior" /\ low("safe_behavior_score", 2) }

ProfileOf(barriers) ==
  IF barriers = {} THEN "No Major Barriers"
  ELSE Join(SelectSeq(BarrierOrder, LAMBDA b : b \in barriers))

RECURSIVE SumSeq(_)
SumSeq(q) == IF q = << >> THEN 0 ELSE Head(q) + SumSeq(Tail(q))

C28_SummaryCounts ==
  [][ (pc = "results" /\ pc' \in { "rec_done", "rec_raised" }) =>
        /\ raw' = raw
        /\ pc' = "rec_done" =>
             LET target == { i \in 1..NRows(raw) :
                               Col(raw, session'["target_column"]).vals[i] = Num(0) }
                 profile == Col(df', "barrier_profile").vals
                 people == Col(df', "people_affected").vals
             IN /\ Columns(df') = << "barrier_profile", "people_affected",
                                     "recommended_action" >>
                /\ \A i \in target :
                     Cardinality({ k \in 1..Len(profile) :
                                     profile[k] = ProfileOf(Barriers(raw, i)) }) = 1
                /\ \A k \in 1..Len(profile) :
                     /\ people[k]
                          = Num(Cardinality({ i \in target :
                                ProfileOf(Barriers(raw, i)) = profile[k] }))
                     /\ people[k] >= Num(1)
                /\ SumSeq(people) = Num(Cardinality(target))
    ]_vars

C28_Witness ==
  /\ pc = "rec_done"
  /\ session["target_column"] = "seasonal_label"
  /\ NRows(raw) = 3
  /\ Col(raw, "seasonal_label").vals = << Num(1), Num(0), Num(0) >>
  /\ Col(df, "barrier_profile").vals
       = << "Low Knowledge + No Insurance",
            "No Doctor Rec + Low Vaccine Belief + Low Risk Perception + Low Knowledge + No Insurance + Low Safe Behavior" >>
  /\ Col(df, "people_affected").vals = << Num(1), Num(1) >>

\* C29: every entry of recommendation_map is the action of some profile that
\* create_profile can produce; a group whose barriers are exactly Low Risk
\* Perception and Low Vaccine Belief is given the mass media campaign, and a
\* group whose barriers are exactly Low Safe Behavior and Low Knowledge the
\* hygiene and flu education materials.
C29_EveryEntryReachable ==
  pc = "rec_done" =>
    /\ LET Profiles ==
             { << "No Major Barriers" >> }
               \cup { SelectSeq(BarrierOrder, LAMBDA b : b \in chosen) :
                        chosen \in (SUBSET Range(BarrierOrder)) \ { {} } }
       IN \A e \in Range(recommendation_map) :
            \E p \in Profiles : map_recommendation(p) = e.action
    /\ \A k \in 1..NRows(df) :
         LET profile == Col(df, "barrier_profile").vals[k]
             action == Col(df, "recommended_action").vals[k]
         IN /\ profile = ProfileOf({ "Low Risk Perception", "Low Vaccine Belief" })
                 => action = "Mass media campaigns highlighting flu dangers."
            /\ profile = ProfileOf({ "Low Safe Behavior", "Low Knowledge" })
                 => action = "Distribute hygiene & flu education materials."

\* C30: none of employment_industry, employment_occupation, hhs_geo_region
\* and census_msa is a key of the mapping _find_high_risk_groups returns.
C30_DroppedNeverKeys ==
  pc = "risk_done" =>
    \A k \in 1..Len(df) :
      df[k].col \notin { "employment_industry", "employment_occupation",
                         "hhs_geo_region", "census_msa" }

====
